---- MODULE Spec2Model ----
(***************************************************************************)
(* Document-scan pipeline and capture triggers of the camera application.  *)
(*                                                                         *)
(*   processDocumentScan  (services/scannerService, src/unnamed/part_000)  *)
(*   orderPoints          (same file)                                      *)
(*                                                                         *)
(* The specifications share the variables:                                 *)
(*   Spec       one call of processDocumentScan, statement by statement,   *)
(*              every engine call able to throw;                           *)
(*   FairSpec   the same call with few engine answers, run to completion;  *)
(*   SpecConc   two calls in flight on two canvases;                       *)
(*   SpecCapture  one capture in SCAN mode: the call, then captureFrame    *)
(*              and takePhoto delivering the photo;                        *)
(*   SpecScale  the scale factor and the resize on frames of many sizes;   *)
(*   SpecRescale  the corners divided by scale and ordered, in numbers;    *)
(*   SpecApp  the handlers of App and the effects of CameraView;           *)
(*   SpecOrder  orderPoints applied to every convex quadrilateral of a     *)
(*              small grid, in every vertex order.                         *)
(***************************************************************************)
EXTENDS Integers, Sequences, FiniteSets, TLC

(***************************************************************************)
(* Bounds of the model                                                     *)
(***************************************************************************)
\* coordinates of the quadrilaterals of SpecOrder range over 0..GridMax
GridMax == 3
\* longest contour list cv.findContours hands back in Spec
MaxContours == 2

(***************************************************************************)
(* Points (interface Point) and elementary geometry                        *)
(***************************************************************************)
Pt(px, py) == [x |-> px, y |-> py]

\* key of the first sort of orderPoints: a.x + a.y
SumKey(p) == p.x + p.y

\* key of the second sort of orderPoints: a.y - a.x
DiffKey(p) == p.y - p.x

\* [...points].sort((a, b) => (a.x + a.y) - (b.x + b.y)):
\* Array.prototype.sort is stable, so equal keys keep their input order.
\* The element at input position i lands at 1 + the number of elements that
\* sort before it.
SortBySum(s) ==
  LET before(i) == {j \in 1..Len(s) :
                      \/ SumKey(s[j]) < SumKey(s[i])
                      \/ (SumKey(s[j]) = SumKey(s[i]) /\ j < i)}
      at(r) == CHOOSE i \in 1..Len(s) : Cardinality(before(i)) + 1 = r
  IN  [r \in 1..Len(s) |-> s[at(r)]]

\* mutant of SortByDiff: the comparator reversed, larger y - x first
SortByDiffDescending(s) ==
  LET before(i) == {j \in 1..Len(s) :
                      \/ DiffKey(s[j]) > DiffKey(s[i])
                      \/ (DiffKey(s[j]) = DiffKey(s[i]) /\ j < i)}
      at(r) == CHOOSE i \in 1..Len(s) : Cardinality(before(i)) + 1 = r
  IN  [r \in 1..Len(s) |-> s[at(r)]]

\* [...remaining].sort((a, b) => (a.y - a.x) - (b.y - b.x)), stable as well
SortByDiff(s) ==
  LET before(i) == {j \in 1..Len(s) :
                      \/ DiffKey(s[j]) < DiffKey(s[i])
                      \/ (DiffKey(s[j]) = DiffKey(s[i]) /\ j < i)}
      at(r) == CHOOSE i \in 1..Len(s) : Cardinality(before(i)) + 1 = r
  IN  [r \in 1..Len(s) |-> s[at(r)]]

\* mutant of orderPoints: BottomRight taken from the third place of the sum
\* order instead of the last
orderPointsBrThird(points) ==
  LET sortedBySum  == SortBySum(points)
      remaining    == <<sortedBySum[2], sortedBySum[4]>>
      sortedByDiff == SortByDiff(remaining)
  IN  <<sortedBySum[1], sortedByDiff[1], sortedBySum[3], sortedByDiff[2]>>

\* mutant of orderPoints: the second sort dropped, the two middle points of
\* the sum order used as they come
orderPointsNoDiffSort(points) ==
  LET sortedBySum == SortBySum(points)
  IN  <<sortedBySum[1], sortedBySum[2], sortedBySum[4], sortedBySum[3]>>

\* orderPoints: returns <<tl, tr, br, bl>>
orderPoints(points) ==
  LET sortedBySum  == SortBySum(points)
      tl           == sortedBySum[1]
      br           == sortedBySum[4]
      remaining    == <<sortedBySum[2], sortedBySum[3]>>
      sortedByDiff == SortByDiff(remaining)
      tr           == sortedByDiff[1]
      bl           == sortedByDiff[2]
  IN  <<tl, tr, br, bl>>

\* z component of (b - a) x (c - b)
Cross(a, b, c) == (b.x - a.x) * (c.y - b.y) - (b.y - a.y) * (c.x - b.x)

\* cv.isContourConvex(approx): every turn of the closed polygon has the same
\* strict orientation
isContourConvex(s) ==
  LET n == Len(s)
      nxt(i) == (i % n) + 1
      turn(i) == Cross(s[i], s[nxt(i)], s[nxt(nxt(i))])
  IN  /\ n >= 3
      /\ \/ \A i \in 1..n : turn(i) > 0
         \/ \A i \in 1..n : turn(i) < 0

\* the eight vertex orders in which a contour tracer can present one
\* quadrilateral: four starting vertices, two directions
Arrangements(q) ==
  {[k \in 1..4 |-> q[((k - 1 + r) % 4) + 1]] : r \in 0..3}
    \cup {[k \in 1..4 |-> q[((r - k + 8) % 4) + 1]] : r \in 0..3}

(***************************************************************************)
(* Rational arithmetic of the scale factor                                 *)
(***************************************************************************)
Max2(a, b) == IF a >= b THEN a ELSE b

RECURSIVE Gcd(_, _)
Gcd(a, b) == IF b = 0 THEN a ELSE Gcd(b, a % b)

\* const maxDim = 800
maxDim == 800

\* minimum contour area of the filter (area < 5000)
minArea == 5000

\* Math.min(maxDim / src.rows, maxDim / src.cols, 1) as the fraction num/den
\* in lowest terms: maxDim / max(rows, cols, maxDim)
ScaleOf(rows, cols) ==
  LET d == Max2(Max2(rows, cols), maxDim)
      g == Gcd(maxDim, d)
  IN  [num |-> maxDim \div g, den |-> d \div g]

\* a JavaScript number handed to an integer field of the engine (cv.Size)
\* loses its fraction: n/d truncated
Trunc(n, d) == n \div d

\* mutant of ScaleBack: the coordinate multiplied by the scale factor
ScaleBackMultiplied(v, sc) == (v * sc.num * sc.num) \div sc.den

\* p.x / scale, kept exact: the result is counted in units of 1/scale.num
\* pixels, so that v / (num/den) = (v * den) / num is the integer v * den
ScaleBack(v, sc) == v * sc.den

RECURSIVE SqrtSearch(_, _, _)
SqrtSearch(v, lo, hi) ==
  IF lo = hi THEN lo
  ELSE LET mid == (lo + hi + 1) \div 2
       IN  IF mid * mid <= v THEN SqrtSearch(v, mid, hi)
           ELSE SqrtSearch(v, lo, mid - 1)

\* floor of the square root
ISqrt(v) == SqrtSearch(v, 0, 46340)

\* square of Math.hypot(a.x - b.x, a.y - b.y)
HypotSq(a, b) == (a.x - b.x) * (a.x - b.x) + (a.y - b.y) * (a.y - b.y)

(***************************************************************************)
(* Natural numbers wider than the integers of the checker: little-endian   *)
(* digits in base 2^15, no leading zero digit (zero is the empty sequence) *)
(***************************************************************************)
Base == 2 ^ 15

\* F(v) with v evaluated once, whatever the evaluation strategy
With(v, F(_)) == CHOOSE y \in {F(x) : x \in {v}} : TRUE

Digit(a, k) == IF k <= Len(a) THEN a[k] ELSE 0

\* leading zero digits dropped
NNorm(a) ==
  SubSeq(a, 1, CHOOSE k \in 0..Len(a) :
                 /\ k = 0 \/ a[k] # 0
                 /\ \A j \in (k + 1)..Len(a) : a[j] = 0)

RECURSIVE NFromInt(_)
NFromInt(n) == IF n = 0 THEN <<>> ELSE <<n % Base>> \o NFromInt(n \div Base)

RECURSIVE NToInt(_)
NToInt(a) == IF a = <<>> THEN 0 ELSE a[1] + Base * NToInt(Tail(a))

RECURSIVE NAddFrom(_, _, _, _)
NAddFrom(a, b, k, carry) ==
  IF k > Len(a) /\ k > Len(b)
    THEN IF carry = 0 THEN <<>> ELSE <<carry>>
    ELSE LET s == Digit(a, k) + Digit(b, k) + carry
         IN  <<s % Base>> \o NAddFrom(a, b, k + 1, s \div Base)

NAdd(a, b) == NAddFrom(a, b, 1, 0)

RECURSIVE NSubFrom(_, _, _, _)
NSubFrom(a, b, k, borrow) ==
  IF k > Len(a) THEN <<>>
  ELSE LET s == Digit(a, k) - Digit(b, k) - borrow
       IN  <<s % Base>> \o NSubFrom(a, b, k + 1, IF s < 0 THEN 1 ELSE 0)

\* a - b for a >= b
NSub(a, b) == With(NSubFrom(a, b, 1, 0), LAMBDA d : NNorm(d))

RECURSIVE NCmpFrom(_, _, _)
NCmpFrom(a, b, k) ==
  IF k = 0 THEN 0
  ELSE IF a[k] # b[k] THEN (IF a[k] < b[k] THEN -1 ELSE 1)
  ELSE NCmpFrom(a, b, k - 1)

\* -1, 0 or 1 as a < b, a = b or a > b
NCmp(a, b) ==
  IF Len(a) # Len(b) THEN (IF Len(a) < Len(b) THEN -1 ELSE 1)
  ELSE NCmpFrom(a, b, Len(a))

RECURSIVE NMulSmallFrom(_, _, _, _)
NMulSmallFrom(a, d, k, carry) ==
  IF k > Len(a)
    THEN IF carry = 0 THEN <<>> ELSE <<carry>>
    ELSE LET s == a[k] * d + carry
         IN  <<s % Base>> \o NMulSmallFrom(a, d, k + 1, s \div Base)

\* a * d for one digit d
NMulSmall(a, d) == IF d = 0 THEN <<>> ELSE NMulSmallFrom(a, d, 1, 0)

RECURSIVE NMul(_, _)
NMul(a, b) ==
  IF a = <<>> \/ b = <<>> THEN <<>>
  ELSE With(<<NMulSmall(a, b[1]), Tail(b)>>, LAMBDA t :
       With(NMul(a, t[2]), LAMBDA rest :
       With(IF rest = <<>> THEN <<>> ELSE <<0>> \o rest, LAMBDA high :
         NAdd(t[1], high))))

\* a * 2^n
NShl(a, n) ==
  IF a = <<>> THEN <<>>
  ELSE [k \in 1..(n \div 15) |-> 0] \o NMulSmall(a, 2 ^ (n % 15))

\* a \div 2^n
NShr(a, n) ==
  With(<<n % 15, SubSeq(a, n \div 15 + 1, Len(a))>>, LAMBDA t :
  With([k \in 1..Len(t[2]) |->
          (t[2][k] \div 2 ^ t[1])
            + (Digit(t[2], k + 1) % 2 ^ t[1]) * 2 ^ (15 - t[1])], LAMBDA c :
    NNorm(c)))

RECURSIVE BitLen(_)
BitLen(n) == IF n = 0 THEN 0 ELSE 1 + BitLen(n \div 2)

\* number of binary digits of a
NBitLen(a) == IF a = <<>> THEN 0 ELSE 15 * (Len(a) - 1) + BitLen(a[Len(a)])

\* b * d <= r
Fits(b, d, r) == With(NMulSmall(b, d), LAMBDA bd : NCmp(bd, r) <= 0)

\* the largest digit d in lo..hi with b * d <= r
RECURSIVE DigitSearch(_, _, _, _)
DigitSearch(r, b, lo, hi) ==
  IF lo = hi THEN lo
  ELSE With((lo + hi + 1) \div 2, LAMBDA mid :
         IF Fits(b, mid, r) THEN DigitSearch(r, b, mid, hi)
         ELSE DigitSearch(r, b, lo, mid - 1))

\* quotient and remainder of a by b > 0, one digit of the quotient per level
RECURSIVE NDivMod(_, _)
NDivMod(a, b) ==
  IF NCmp(a, b) < 0 THEN [q |-> <<>>, r |-> a]
  ELSE With(<<0>> \o b, LAMBDA b2 :
       With(NDivMod(a, b2), LAMBDA h :
       With(DigitSearch(h.r, b, 0, Base - 1), LAMBDA d :
       With(NMulSmall(b, d), LAMBDA bd :
         [q |-> <<d>> \o h.q, r |-> NSub(h.r, bd)]))))

(***************************************************************************)
(* JavaScript numbers: IEEE-754 doubles, (-1)^neg * m * 2^e with m odd,    *)
(* every operation rounded to 53 significant bits, ties to even            *)
(***************************************************************************)
Zero == [neg |-> FALSE, m |-> <<>>, e |-> 0]

RECURSIVE Canon(_, _, _)
Canon(neg, m, e) ==
  IF m = <<>> THEN Zero
  ELSE IF m[1] = 0 THEN With(Tail(m), LAMBDA t : Canon(neg, t, e + 15))
  ELSE IF m[1] % 2 = 0 THEN With(NShr(m, 1), LAMBDA t : Canon(neg, t, e + 1))
  ELSE [neg |-> neg, m |-> m, e |-> e]

\* the double nearest to (-1)^neg * m * 2^e
Round(neg, m, e) ==
  With(NBitLen(m) - 53, LAMBDA n :
    IF n <= 0 THEN Canon(neg, m, e)
    ELSE With(NShr(m, n), LAMBDA q :
         With(<<NShl(q, n), NShl(<<1>>, n - 1)>>, LAMBDA t :
         With(NSub(m, t[1]), LAMBDA rest :
         With(NCmp(rest, t[2]), LAMBDA c :
         With(IF c > 0 \/ (c = 0 /\ q[1] % 2 = 1) THEN NAdd(q, <<1>>) ELSE q,
              LAMBDA r : Canon(neg, r, e + n)))))))

\* an integer literal or an integer field read as a number
Num(n) ==
  With(NFromInt(IF n < 0 THEN -n ELSE n), LAMBDA m : Canon(n < 0, m, 0))

\* a / b, b nonzero: 57 or 58 quotient bits, the last one telling whether
\* a remainder was left
Div(a, b) ==
  IF a.m = <<>> THEN Zero
  ELSE With(56 + NBitLen(b.m) - NBitLen(a.m), LAMBDA k :
       With(<<NShl(a.m, k), b.m>>, LAMBDA t :
       With(NDivMod(t[1], t[2]), LAMBDA d :
       With(NAdd(d.q, d.q), LAMBDA q2 :
       With(IF d.r = <<>> THEN q2 ELSE NAdd(q2, <<1>>), LAMBDA q :
         Round(a.neg # b.neg, q, a.e - b.e - k - 1))))))

\* a * b
Mul(a, b) ==
  With(NMul(a.m, b.m), LAMBDA m : Round(a.neg # b.neg, m, a.e + b.e))

\* a + b
Add(a, b) ==
  With(IF a.e <= b.e THEN a.e ELSE b.e, LAMBDA e :
  With(<<NShl(a.m, a.e - e), NShl(b.m, b.e - e)>>, LAMBDA t :
  With(NCmp(t[1], t[2]), LAMBDA c :
  With(IF a.neg = b.neg THEN NAdd(t[1], t[2])
       ELSE IF c >= 0 THEN NSub(t[1], t[2])
       ELSE NSub(t[2], t[1]), LAMBDA m :
    Round(IF a.neg = b.neg \/ c >= 0 THEN a.neg ELSE b.neg, m, e)))))

\* a - b
Sub(a, b) ==
  With([b EXCEPT !.neg = (~b.neg /\ b.m # <<>>)], LAMBDA nb : Add(a, nb))

\* a < b
Less(a, b) == Sub(a, b).neg

\* Math.min(a, b)
Min2(a, b) == IF Less(b, a) THEN b ELSE a

\* the number as the engine stores it in an integer field (cv.Size, int
\* arguments): the fraction dropped
ToInt(a) ==
  With(IF a.e >= 0 THEN NShl(a.m, a.e) ELSE NShr(a.m, -a.e), LAMBDA m :
    IF a.neg THEN -NToInt(m) ELSE NToInt(m))

\* Math.min(maxDim / rows, maxDim / cols, 1)
scaleNumber(rows, cols) ==
  With(<<Num(maxDim), Num(rows), Num(cols), Num(1)>>, LAMBDA n :
  With(<<Div(n[1], n[2]), Div(n[1], n[3])>>, LAMBDA q :
  With(Min2(q[1], q[2]), LAMBDA least : Min2(least, n[4]))))

\* the size of smallSrc: scale < 1 ? new cv.Size(cols * scale, rows * scale),
\* the two products stored as integers : the size of src (copyTo)
smallSize(rows, cols) ==
  With(<<scaleNumber(rows, cols), Num(1), Num(rows), Num(cols)>>, LAMBDA n :
    IF Less(n[1], n[2])
      THEN With(<<Mul(n[3], n[1]), Mul(n[4], n[1])>>, LAMBDA prod :
             [rows |-> ToInt(prod[1]), cols |-> ToInt(prod[2])])
      ELSE [rows |-> rows, cols |-> cols])

\* maxContourData.map(p => ({x: p.x / scale, y: p.y / scale})), the
\* coordinates being numbers
scaleBack(q, s) ==
  [k \in 1..Len(q) |-> [x |-> Div(Num(q[k].x), s), y |-> Div(Num(q[k].y), s)]]

\* [...s].sort((a, b) => key(a) - key(b)) for number keys: how many keys lie
\* strictly below each one, then the stable order by that count
SortByNumber(s, key) ==
  With([i \in 1..Len(s) |->
          Cardinality({j \in 1..Len(s) : Less(key[j], key[i])})], LAMBDA below :
    LET before(i) == {j \in 1..Len(s) :
                        \/ below[j] < below[i]
                        \/ (below[j] = below[i] /\ j < i)}
        at(r) == CHOOSE i \in 1..Len(s) : Cardinality(before(i)) + 1 = r
    IN  [r \in 1..Len(s) |-> s[at(r)]])

\* orderPoints on points with number coordinates
orderPointsNumber(points) ==
  With([k \in 1..4 |-> Add(points[k].x, points[k].y)], LAMBDA sums :
  With(SortByNumber(points, sums), LAMBDA sortedBySum :
  With(<<sortedBySum[2], sortedBySum[3]>>, LAMBDA remaining :
  With([k \in 1..2 |-> Sub(remaining[k].y, remaining[k].x)], LAMBDA diffs :
  With(SortByNumber(remaining, diffs), LAMBDA sortedByDiff :
    <<sortedBySum[1], sortedByDiff[1], sortedBySum[4], sortedByDiff[2]>>)))))

(***************************************************************************)
(* Canvases, Mats and results                                              *)
(***************************************************************************)
Procs == {1, 2}

NoQuad == <<>>

\* pixel content: which captured frame it shows and, once warped, through
\* which ordered source corners and in which units
NoPx == [img |-> 0, warp |-> NoQuad, unit |-> 0]
FramePx(f) == [img |-> f, warp |-> NoQuad, unit |-> 0]

NoCanvas == [width |-> 0, height |-> 0, px |-> NoPx]

\* new cv.Mat()
EmptyMat == [rows |-> 0, cols |-> 0, px |-> NoPx]

\* frames the capture layer draws into the canvas (videoWidth x videoHeight)
Frames ==
  { [width |-> 1000, height |-> 1000, px |-> FramePx(1)],
    [width |-> 1600, height |-> 1200, px |-> FramePx(2)],
    [width |-> 800,  height |-> 600,  px |-> FramePx(3)] }

\* the return values of processDocumentScan
Null == [kind |-> "null", quality |-> 0, width |-> 0, height |-> 0, px |-> NoPx]

\* the promise rejected: an exception left the function
Rejected == [kind |-> "rejected", quality |-> 0, width |-> 0, height |-> 0,
             px |-> NoPx]

NoResult == [kind |-> "none", quality |-> 0, width |-> 0, height |-> 0,
             px |-> NoPx]

\* canvas.toDataURL('image/jpeg', 0.9)
toDataURL(c) == [kind |-> "image", quality |-> 90, width |-> c.width,
                 height |-> c.height, px |-> c.px]

\* canvas.toDataURL('image/jpeg'): the quality left to the browser (0.92)
toDataURLDefault(c) == [kind |-> "image", quality |-> 92, width |-> c.width,
                        height |-> c.height, px |-> c.px]

\* cv.imread(canvas)
imread(c) == [rows |-> c.height, cols |-> c.width, px |-> c.px]

\* cv.imshow(canvas, mat): the canvas takes the size and the pixels of mat
imshow(m) == [width |-> m.cols, height |-> m.rows, px |-> m.px]

(***************************************************************************)
(* What cv.findContours and cv.approxPolyDP can hand back                  *)
(***************************************************************************)
\* polygons in downscaled pixels, vertices in tracing order
RectA == <<Pt(160, 240), Pt(640, 240), Pt(640, 560), Pt(160, 560)>>
RectB == <<Pt(640, 560), Pt(640, 240), Pt(160, 240), Pt(160, 560)>>
\* a rectangle whose corners fall between pixels of a 1000x1000 frame
RectOdd == <<Pt(161, 240), Pt(640, 240), Pt(640, 561), Pt(161, 561)>>
SkewQuad == <<Pt(100, 0), Pt(400, 0), Pt(400, 300), Pt(0, 100)>>
\* rectangles with a corner at the origin of the frame, traced from
\* different vertices in different directions
RectOrigin == <<Pt(640, 480), Pt(0, 480), Pt(0, 0), Pt(640, 0)>>
RectOriginOdd == <<Pt(0, 0), Pt(0, 481), Pt(641, 481), Pt(641, 0)>>
Triangle == <<Pt(0, 0), Pt(400, 0), Pt(0, 400)>>
Dart == <<Pt(0, 0), Pt(400, 400), Pt(0, 100), Pt(100, 0)>>

\* cv.contourArea is measured on the raw contour, not on the polygon:
\* the same polygon comes with several areas
ContourPool ==
  {[area |-> 9000, approx |-> q] : q \in Arrangements(RectA)}
    \cup { [area |-> minArea - 1, approx |-> RectA],
           [area |-> minArea, approx |-> RectA],
           [area |-> 9000, approx |-> RectOdd],
           [area |-> minArea, approx |-> SkewQuad],
           [area |-> 9000, approx |-> SkewQuad],
           [area |-> 9000, approx |-> Triangle],
           [area |-> 9000, approx |-> Dart] }

RECURSIVE SeqsUpTo(_, _)
SeqsUpTo(S, n) ==
  IF n = 0 THEN {<<>>}
  ELSE LET shorter == SeqsUpTo(S, n - 1)
       IN  shorter \cup {Append(s, e) : s \in {t \in shorter : Len(t) = n - 1},
                                        e \in S}

ContourLists == SeqsUpTo(ContourPool, MaxContours)

\* the lists of the two-call specification
ConcLists ==
  { <<>>,
    <<[area |-> minArea, approx |-> RectA]>>,
    <<[area |-> 9000, approx |-> SkewQuad]>>,
    <<[area |-> minArea, approx |-> Dart], [area |-> 9000, approx |-> RectB]>>,
    <<[area |-> minArea - 1, approx |-> RectA]>> }

ConcFrames == {f \in Frames : f.width # 1600}

\* the lists of the capture specification: those above and a rectangle at
\* the origin of the frame in its eight tracing orders
CaptureLists ==
  ConcLists
    \cup {<<[area |-> 9000, approx |-> q]>> : q \in Arrangements(RectOrigin)}
    \cup {<<[area |-> 9000, approx |-> RectOriginOdd]>>}

(***************************************************************************)
(* State                                                                   *)
(***************************************************************************)
VARIABLES
  cv,              \* window.cv: "missing", "noMat" (no cv.Mat yet), "loaded"
  pc,              \* the statement each call stands at
  canvas,          \* the canvas passed to each call
  orig,            \* the frame the capture layer drew into that canvas
  engineAtCall,    \* what the capability probe of the call saw
  heap,            \* live engine buffers: [owner, name, k]
  everAlloc,       \* the buffers each call has allocated so far
  mat,             \* src, smallSrc and dst of each call
  scale,           \* const scale
  contours,        \* what cv.findContours and cv.approxPolyDP answered
  i,               \* the loop counter (contours handled so far)
  maxArea,         \* let maxArea
  maxContourData,  \* let maxContourData (NoQuad for null)
  ordered,         \* [tl, tr, br, bl] in units of 1/scale.num pixels
  maxSize,         \* squares of maxWidth and maxHeight, same units
  result,          \* what the call returned
  threw,           \* the statement that threw, or "none"
  ran,             \* the statements the call has completed
  pts,             \* SpecOrder: the four points handed to orderPoints
  ordOut,          \* SpecOrder: what orderPoints returned
  delivered,       \* what takePhoto handed to onPhotoCaptured
  detected,        \* SpecRescale: maxContourData and the size of its frame
  rescaled,        \* SpecRescale: [tl, tr, br, bl] as the code computes them
  app,             \* the useState values of App
  view,            \* the useState and useRef values of CameraView
  fx               \* the dependency values each effect of CameraView last ran with

vars == <<cv, pc, canvas, orig, engineAtCall, heap, everAlloc, mat, scale,
          contours, i, maxArea, maxContourData, ordered, maxSize, result,
          threw, ran, pts, ordOut, delivered, detected, rescaled,
          app, view, fx>>

orderVars == <<pts, ordOut>>
\* what the statements of processDocumentScan and orderPoints never touch
rescaleVars == <<detected, rescaled>>
appVars == <<app, view, fx>>
laterVars == <<delivered, rescaleVars, appVars>>
loopVars == <<contours, i, maxArea, maxContourData>>
warpVars == <<ordered, maxSize>>
callVars == <<cv, canvas, orig, engineAtCall>>

H(p, name, k) == [owner |-> p, name |-> name, k |-> k]

Live(p) == {h \in heap : h.owner = p}

Goto(p, next) ==
  /\ pc' = [pc EXCEPT ![p] = next]
  /\ ran' = [ran EXCEPT ![p] = @ \cup {pc[p]}]

Alloc(p, name, k) ==
  /\ heap' = heap \cup {H(p, name, k)}
  /\ everAlloc' = [everAlloc EXCEPT ![p] = @ \cup {<<name, k>>}]

Release(p, names, k) ==
  /\ heap' = heap \ {H(p, n, k) : n \in names}
  /\ UNCHANGED everAlloc

InitPipeline ==
  /\ cv = "missing"
  /\ pc = [p \in Procs |-> "idle"]
  /\ canvas = [p \in Procs |-> NoCanvas]
  /\ orig = [p \in Procs |-> NoCanvas]
  /\ engineAtCall = [p \in Procs |-> "none"]
  /\ heap = {}
  /\ everAlloc = [p \in Procs |-> {}]
  /\ mat = [p \in Procs |-> [src |-> EmptyMat, smallSrc |-> EmptyMat,
                             dst |-> EmptyMat]]
  /\ scale = [p \in Procs |-> [num |-> 1, den |-> 1]]
  /\ contours = [p \in Procs |-> <<>>]
  /\ i = [p \in Procs |-> 0]
  /\ maxArea = [p \in Procs |-> 0]
  /\ maxContourData = [p \in Procs |-> NoQuad]
  /\ ordered = [p \in Procs |-> NoQuad]
  /\ maxSize = [p \in Procs |-> [w2 |-> 0, h2 |-> 0]]
  /\ result = [p \in Procs |-> NoResult]
  /\ threw = [p \in Procs |-> "none"]
  /\ ran = [p \in Procs |-> {}]
  /\ delivered = [p \in Procs |-> NoResult]

\* nothing handed to the rescaling of SpecRescale
IdleRescale ==
  /\ detected = [quad |-> NoQuad, rows |-> 0, cols |-> 0]
  /\ rescaled = NoQuad

\* App and CameraView as mounted: every effect has run once, initCamera is
\* waiting for getUserMedia
IdleApp ==
  /\ app = [mode |-> "PHOTO", zoomLevel |-> Num(1), isTorchOn |-> FALSE,
            triggerShutterCount |-> 0, isRecording |-> FALSE,
            triggerRecordToggle |-> FALSE, mediaList |-> <<>>]
  /\ view = [camera |-> "pending", streamRef |-> FALSE, trackRef |-> FALSE,
             hardwareZoomMax |-> Num(1), cssScale |-> Num(1),
             isRecording |-> FALSE, mediaRecorderRef |-> "null",
             stopQueued |-> FALSE, hwZoom |-> Zero, started |-> 0]
  /\ fx = [zoom |-> <<Num(1), Num(1), FALSE>>,
           shutter |-> <<0, Num(1), "PHOTO">>,
           record |-> <<FALSE, FALSE>>]

Init ==
  /\ InitPipeline
  /\ pts = NoQuad
  /\ ordOut = NoQuad
  /\ IdleRescale
  /\ IdleApp

(***************************************************************************)
(* The engine script finishes loading: window.cv appears, then cv.Mat      *)
(***************************************************************************)
LoadEngine ==
  /\ cv # "loaded"
  /\ cv' = IF cv = "missing" THEN "noMat" ELSE "loaded"
  /\ UNCHANGED <<pc, canvas, orig, engineAtCall, heap, everAlloc, mat, scale,
                 loopVars, warpVars, result, threw, ran, orderVars, laterVars>>

(***************************************************************************)
(* captureFrame draws the video frame into a fresh canvas and, in SCAN     *)
(* mode, calls processDocumentScan(canvas)                                 *)
(***************************************************************************)
Capture(p, frames) ==
  /\ pc[p] = "idle"
  /\ \E f \in frames :
       /\ canvas' = [canvas EXCEPT ![p] = f]
       /\ orig' = [orig EXCEPT ![p] = f]
  /\ pc' = [pc EXCEPT ![p] = "check"]
  /\ UNCHANGED <<cv, engineAtCall, heap, everAlloc, mat, scale, loopVars,
                 warpVars, result, threw, ran, orderVars, laterVars>>

\* mutant of EngineReady: the typeof cv.Mat test forgotten
EngineReadyNoMatTest(c) == c # "missing"

\* !(!window.cv || typeof window.cv.Mat === 'undefined')
EngineReady(c) == c # "missing" /\ c # "noMat"

\* if (!window.cv || ...) { console.warn(...); return null; }
CheckEngine(p) ==
  /\ pc[p] = "check"
  /\ engineAtCall' = [engineAtCall EXCEPT ![p] = cv]
  /\ IF EngineReady(cv)
       THEN /\ Goto(p, "imread")
            /\ UNCHANGED result
       ELSE /\ Goto(p, "done")
            /\ result' = [result EXCEPT ![p] = Null]
  /\ UNCHANGED <<cv, canvas, orig, heap, everAlloc, mat, scale, loopVars,
                 warpVars, threw, orderVars, laterVars>>

\* const src = cv.imread(canvas)
Imread(p) ==
  /\ pc[p] = "imread"
  /\ mat' = [mat EXCEPT ![p].src = imread(canvas[p])]
  /\ Alloc(p, "src", 0)
  /\ Goto(p, "newDst")
  /\ UNCHANGED <<callVars, scale, loopVars, warpVars, result, threw,
                 orderVars, laterVars>>

\* the statements that allocate one engine buffer and do nothing else the
\* model records: statement |-> <<buffer, next statement>>
AllocTable ==
  [ newDst       |-> <<"dst", "newSmall">>,
    newSmall     |-> <<"smallSrc", "resize">>,
    newGray      |-> <<"gray", "newBlurred">>,
    newBlurred   |-> <<"blurred", "newEdges">>,
    newEdges     |-> <<"edges", "cvtColor">>,
    newContours  |-> <<"contours", "newHierarchy">>,
    newHierarchy |-> <<"hierarchy", "findContours">>,
    srcTri       |-> <<"srcTri", "dstTri">>,
    dstTri       |-> <<"dstTri", "getM">>,
    getM         |-> <<"M", "warp">> ]

Allocate(p) ==
  /\ pc[p] \in DOMAIN AllocTable
  /\ Alloc(p, AllocTable[pc[p]][1], 0)
  /\ Goto(p, AllocTable[pc[p]][2])
  /\ UNCHANGED <<callVars, mat, scale, loopVars, warpVars, result, threw,
                 orderVars, laterVars>>

\* const scale = Math.min(...); if (scale < 1) cv.resize(...) else copyTo.
\* The variable scale keeps the exact fraction the number scale is the
\* rounding of: 800 / max(rows, cols, 800).
Resize(p) ==
  /\ pc[p] = "resize"
  /\ scale' = [scale EXCEPT ![p] = ScaleOf(mat[p].src.rows, mat[p].src.cols)]
  /\ \E size \in {smallSize(mat[p].src.rows, mat[p].src.cols)} :
       mat' = [mat EXCEPT ![p].smallSrc =
                 [rows |-> size.rows, cols |-> size.cols, px |-> mat[p].src.px]]
  /\ Goto(p, "newGray")
  /\ UNCHANGED <<callVars, heap, everAlloc, loopVars, warpVars, result, threw,
                 orderVars, laterVars>>

\* engine calls that fill buffers the model does not look into:
\* statement |-> next statement
TransformTable ==
  [ cvtColor     |-> "blur",
    blur         |-> "canny",
    canny        |-> "newContours",
    arcLength    |-> "newApprox",
    approxPolyDP |-> "select" ]

Transform(p) ==
  /\ pc[p] \in DOMAIN TransformTable
  /\ Goto(p, TransformTable[pc[p]])
  /\ UNCHANGED <<callVars, heap, everAlloc, mat, scale, loopVars, warpVars,
                 result, threw, orderVars, laterVars>>

\* cv.findContours(edges, contours, hierarchy, ...): the answer of the engine
FindContours(p, lists) ==
  /\ pc[p] = "findContours"
  /\ \E cs \in lists : contours' = [contours EXCEPT ![p] = cs]
  /\ Goto(p, "initLoop")
  /\ UNCHANGED <<callVars, heap, everAlloc, mat, scale, i, maxArea,
                 maxContourData, warpVars, result, threw, orderVars, laterVars>>

\* mutant of MaxAreaCell: maxArea declared at module level, one cell shared
\* by all calls
MaxAreaCellShared(p) == 1

\* let maxArea is declared inside the function: one cell per call
MaxAreaCell(p) == p

\* let maxArea = 0; let maxContourData = null; for (let i = 0; ...
InitLoop(p) ==
  /\ pc[p] = "initLoop"
  /\ maxArea' = [maxArea EXCEPT ![MaxAreaCell(p)] = 0]
  /\ maxContourData' = [maxContourData EXCEPT ![p] = NoQuad]
  /\ i' = [i EXCEPT ![p] = 0]
  /\ Goto(p, "loopTest")
  /\ UNCHANGED <<callVars, heap, everAlloc, mat, scale, contours, warpVars,
                 result, threw, orderVars, laterVars>>

\* i < contours.size()
LoopTest(p) ==
  /\ pc[p] = "loopTest"
  /\ IF i[p] < Len(contours[p]) THEN Goto(p, "get") ELSE Goto(p, "branch")
  /\ UNCHANGED <<callVars, heap, everAlloc, mat, scale, loopVars, warpVars,
                 result, threw, orderVars, laterVars>>

\* const contour = contours.get(i): a new handle
GetContour(p) ==
  /\ pc[p] = "get"
  /\ Alloc(p, "contour", i[p] + 1)
  /\ Goto(p, "area")
  /\ UNCHANGED <<callVars, mat, scale, loopVars, warpVars, result, threw,
                 orderVars, laterVars>>

\* const area = cv.contourArea(contour); if (area < 5000) continue;
AreaFilter(p) ==
  /\ pc[p] = "area"
  /\ IF contours[p][i[p] + 1].area < minArea
       THEN /\ i' = [i EXCEPT ![p] = @ + 1]
            /\ Goto(p, "loopTest")
       ELSE /\ i' = i
            /\ Goto(p, "arcLength")
  /\ UNCHANGED <<callVars, heap, everAlloc, mat, scale, contours, maxArea,
                 maxContourData, warpVars, result, threw, orderVars, laterVars>>

\* const approx = new cv.Mat()
NewApprox(p) ==
  /\ pc[p] = "newApprox"
  /\ Alloc(p, "approx", i[p] + 1)
  /\ Goto(p, "approxPolyDP")
  /\ UNCHANGED <<callVars, mat, scale, loopVars, warpVars, result, threw,
                 orderVars, laterVars>>

\* mutant of Better: a later contour of equal area replaces the earlier one
BetterOrEqual(area, best) == area >= best

\* area > maxArea
Better(area, best) == area > best

\* if (approx.rows === 4 && cv.isContourConvex(approx)) { if (area > maxArea)
\*   { maxArea = area; maxContourData = the four points of approx } }
SelectQuad(p) ==
  /\ pc[p] = "select"
  /\ LET c == contours[p][i[p] + 1]
     IN  IF /\ Len(c.approx) = 4
            /\ isContourConvex(c.approx)
            /\ Better(c.area, maxArea[MaxAreaCell(p)])
           THEN /\ maxArea' = [maxArea EXCEPT ![MaxAreaCell(p)] = c.area]
                /\ maxContourData' = [maxContourData EXCEPT ![p] = c.approx]
           ELSE UNCHANGED <<maxArea, maxContourData>>
  /\ Goto(p, "approxDelete")
  /\ UNCHANGED <<callVars, heap, everAlloc, mat, scale, contours, i, warpVars,
                 result, threw, orderVars, laterVars>>

\* approx.delete(); ++i
ApproxDelete(p) ==
  /\ pc[p] = "approxDelete"
  /\ Release(p, {"approx"}, i[p] + 1)
  /\ i' = [i EXCEPT ![p] = @ + 1]
  /\ Goto(p, "loopTest")
  /\ UNCHANGED <<callVars, mat, scale, contours, maxArea, maxContourData,
                 warpVars, result, threw, orderVars, laterVars>>

\* if (maxContourData) ... else ...
Branch(p) ==
  /\ pc[p] = "branch"
  /\ IF maxContourData[p] # NoQuad THEN Goto(p, "order")
                                   ELSE Goto(p, "imshowSrc")
  /\ UNCHANGED <<callVars, heap, everAlloc, mat, scale, loopVars, warpVars,
                 result, threw, orderVars, laterVars>>

\* points = maxContourData.map(p => ({x: p.x / scale, y: p.y / scale}));
\* [tl, tr, br, bl] = orderPoints(points); maxWidth = Math.max(widthA,
\* widthB); maxHeight = Math.max(heightA, heightB)
OrderAndSize(p) ==
  /\ pc[p] = "order"
  /\ LET points == [k \in 1..4 |->
                      Pt(ScaleBack(maxContourData[p][k].x, scale[p]),
                         ScaleBack(maxContourData[p][k].y, scale[p]))]
         o  == orderPoints(points)
         tl == o[1]
         tr == o[2]
         br == o[3]
         bl == o[4]
     IN  /\ ordered' = [ordered EXCEPT ![p] = o]
         /\ maxSize' = [maxSize EXCEPT ![p] =
                          [w2 |-> Max2(HypotSq(br, bl), HypotSq(tr, tl)),
                           h2 |-> Max2(HypotSq(tr, br), HypotSq(tl, bl))]]
  /\ Goto(p, "srcTri")
  /\ UNCHANGED <<callVars, heap, everAlloc, mat, scale, loopVars, result,
                 threw, orderVars, laterVars>>

\* mutant of dsize: new cv.Size(maxHeight, maxWidth)
dsizeSwapped(size, u) ==
  [rows |-> Trunc(ISqrt(size.w2), u), cols |-> Trunc(ISqrt(size.h2), u)]

\* new cv.Size(maxWidth, maxHeight): width and height stored as integers
dsize(size, u) ==
  [rows |-> Trunc(ISqrt(size.h2), u), cols |-> Trunc(ISqrt(size.w2), u)]

\* cv.warpPerspective(src, dst, M, new cv.Size(maxWidth, maxHeight), ...):
\* dst gets the truncated size and the pixels of src seen through the
\* ordered corners
WarpPerspective(p) ==
  /\ pc[p] = "warp"
  /\ mat' = [mat EXCEPT ![p].dst =
               [rows |-> dsize(maxSize[p], scale[p].num).rows,
                cols |-> dsize(maxSize[p], scale[p].num).cols,
                px |-> [img |-> mat[p].src.px.img, warp |-> ordered[p],
                        unit |-> scale[p].num]]]
  /\ Goto(p, "imshowDst")
  /\ UNCHANGED <<callVars, heap, everAlloc, scale, loopVars, warpVars, result,
                 threw, orderVars, laterVars>>

\* cv.imshow(canvas, dst)
ImshowDst(p) ==
  /\ pc[p] = "imshowDst"
  /\ canvas' = [canvas EXCEPT ![p] = imshow(mat[p].dst)]
  /\ Goto(p, "delTri")
  /\ UNCHANGED <<cv, orig, engineAtCall, heap, everAlloc, mat, scale,
                 loopVars, warpVars, result, threw, orderVars, laterVars>>

\* srcTri.delete(); dstTri.delete(); M.delete()
DeleteTransform(p) ==
  /\ pc[p] = "delTri"
  /\ Release(p, {"srcTri", "dstTri", "M"}, 0)
  /\ Goto(p, "cleanup")
  /\ UNCHANGED <<callVars, mat, scale, loopVars, warpVars, result, threw,
                 orderVars, laterVars>>

\* mutant of FallbackMat: the empty dst shown instead of src
FallbackMatDst(p) == mat[p].dst

\* the Mat the else branch shows
FallbackMat(p) == mat[p].src

\* else { cv.imshow(canvas, src) }
ImshowSrc(p) ==
  /\ pc[p] = "imshowSrc"
  /\ canvas' = [canvas EXCEPT ![p] = imshow(FallbackMat(p))]
  /\ Goto(p, "cleanup")
  /\ UNCHANGED <<cv, orig, engineAtCall, heap, everAlloc, mat, scale,
                 loopVars, warpVars, result, threw, orderVars, laterVars>>

\* src.delete(); dst.delete(); smallSrc.delete(); gray.delete();
\* blurred.delete(); edges.delete(); contours.delete(); hierarchy.delete()
Cleanup(p) ==
  /\ pc[p] = "cleanup"
  /\ Release(p, {"src", "dst", "smallSrc", "gray", "blurred", "edges",
                 "contours", "hierarchy"}, 0)
  /\ Goto(p, "encode")
  /\ UNCHANGED <<callVars, mat, scale, loopVars, warpVars, result, threw,
                 orderVars, laterVars>>

\* return canvas.toDataURL('image/jpeg', 0.9)
Encode(p) ==
  /\ pc[p] = "encode"
  /\ result' = [result EXCEPT ![p] = toDataURL(canvas[p])]
  /\ Goto(p, "done")
  /\ UNCHANGED <<callVars, heap, everAlloc, mat, scale, loopVars, warpVars,
                 threw, orderVars, laterVars>>

\* the statements that call into the engine or the canvas and can throw
ThrowingSteps ==
  {"imread", "resize", "findContours", "loopTest", "get", "area", "newApprox",
   "select", "warp", "imshowDst", "imshowSrc", "encode"}
    \cup DOMAIN AllocTable \cup DOMAIN TransformTable

\* mutant of InTry: the return statement placed after the try/catch
InTryWithoutReturn(step) == step \notin {"check", "encode"}

\* the statements enclosed by try { ... } catch (e) { ... return null; }
InTry(step) == step # "check"

\* a statement throws: caught inside the try, the call returns null;
\* outside of it the promise of the async function is rejected
Throw(p) ==
  /\ pc[p] \in ThrowingSteps
  /\ threw' = [threw EXCEPT ![p] = pc[p]]
  /\ result' = [result EXCEPT ![p] = IF InTry(pc[p]) THEN Null ELSE Rejected]
  /\ pc' = [pc EXCEPT ![p] = "done"]
  /\ UNCHANGED <<callVars, heap, everAlloc, mat, scale, loopVars, warpVars,
                 ran, orderVars, laterVars>>

(***************************************************************************)
(* The caller, CameraView: captureFrame in SCAN mode awaits the call and    *)
(* returns processedDataUrl || canvas.toDataURL('image/jpeg'); takePhoto    *)
(* hands a string result to onPhotoCaptured                                 *)
(***************************************************************************)
Deliver(p) ==
  /\ pc[p] = "done"
  /\ result[p].kind # "rejected"
  /\ delivered' = [delivered EXCEPT ![p] =
                     IF result[p] # Null THEN result[p]
                     ELSE toDataURLDefault(canvas[p])]
  /\ pc' = [pc EXCEPT ![p] = "delivered"]
  /\ UNCHANGED <<callVars, heap, everAlloc, mat, scale, loopVars, warpVars,
                 result, threw, ran, orderVars, rescaleVars, appVars>>

\* the fallback canvas.toDataURL throws, or the awaited promise was
\* rejected: nothing catches it, the promise of takePhoto is rejected and
\* onPhotoCaptured is not called
DeliverThrow(p) ==
  /\ pc[p] = "done"
  /\ result[p] = Null \/ result[p].kind = "rejected"
  /\ pc' = [pc EXCEPT ![p] = "unhandled"]
  /\ UNCHANGED <<callVars, heap, everAlloc, mat, scale, loopVars, warpVars,
                 result, threw, ran, orderVars, laterVars>>

\* one statement of the call p
Step(p, frames, lists) ==
  \/ Capture(p, frames)
  \/ CheckEngine(p)
  \/ Imread(p)
  \/ Allocate(p)
  \/ Resize(p)
  \/ Transform(p)
  \/ FindContours(p, lists)
  \/ InitLoop(p)
  \/ LoopTest(p)
  \/ GetContour(p)
  \/ AreaFilter(p)
  \/ NewApprox(p)
  \/ SelectQuad(p)
  \/ ApproxDelete(p)
  \/ Branch(p)
  \/ OrderAndSize(p)
  \/ WarpPerspective(p)
  \/ ImshowDst(p)
  \/ DeleteTransform(p)
  \/ ImshowSrc(p)
  \/ Cleanup(p)
  \/ Encode(p)
  \/ Throw(p)

\* a single capture request
Next ==
  \/ LoadEngine
  \/ Step(1, Frames, ContourLists)

Spec == Init /\ [][Next]_vars

\* two capture requests in flight
NextConc ==
  \/ LoadEngine
  \/ \E p \in Procs : Step(p, ConcFrames, ConcLists)

SpecConc == Init /\ [][NextConc]_vars

\* a capture in SCAN mode: the call and what captureFrame and takePhoto do
\* with its result
NextCapture ==
  \/ LoadEngine
  \/ Step(1, Frames, CaptureLists)
  \/ Deliver(1)
  \/ DeliverThrow(1)

SpecCapture == Init /\ [][NextCapture]_vars

(***************************************************************************)
(* orderPoints on its own                                                  *)
(***************************************************************************)
GridPoints == {Pt(a, b) : a \in 0..GridMax, b \in 0..GridMax}

\* every strictly convex quadrilateral of the grid, in every tracing order
ConvexQuads ==
  {q \in [1..4 -> GridPoints] : isContourConvex(q)}

InitOrder ==
  /\ InitPipeline
  /\ pts \in ConvexQuads
  /\ ordOut = NoQuad
  /\ IdleRescale
  /\ IdleApp

ApplyOrderPoints ==
  /\ pts # NoQuad
  /\ ordOut = NoQuad
  /\ ordOut' = orderPoints(pts)
  /\ UNCHANGED <<cv, pc, canvas, orig, engineAtCall, heap, everAlloc, mat,
                 scale, loopVars, warpVars, result, threw, ran, pts,
                 laterVars>>

NextOrder == ApplyOrderPoints

SpecOrder == InitOrder /\ [][NextOrder]_vars

(***************************************************************************)
(* Properties                                                              *)
(***************************************************************************)
Done(p) == pc[p] = "done"

\* the filter of the specification: area, four vertices, convex
Accepted(c) ==
  /\ c.area >= minArea
  /\ Len(c.approx) = 4
  /\ isContourConvex(c.approx)

AcceptedIdx(cs) == {k \in 1..Len(cs) : Accepted(cs[k])}

\* the accepted contour of largest area, the first one among equals
Retained(cs) ==
  IF AcceptedIdx(cs) = {} THEN NoQuad
  ELSE LET best == CHOOSE k \in AcceptedIdx(cs) :
                     \A j \in AcceptedIdx(cs) :
                        \/ cs[k].area > cs[j].area
                        \/ (cs[k].area = cs[j].area /\ k <= j)
       IN  cs[best].approx

Prefix(cs, n) == [k \in 1..n |-> cs[k]]

\* C1 (as claimed): whenever the call has returned null the canvas still holds
\* the original frame at its original size; the canvas differs from the
\* captured frame only on calls that returned an encoded image.
C1_NullLeavesCanvas ==
  \A p \in Procs :
    Done(p) /\ result[p] = Null => canvas[p] = orig[p]

\* C2 (as claimed): when the call has completed, on whatever exit path, none
\* of the buffers it allocated is still live.
C2_AllBuffersReleased ==
  \A p \in Procs : Done(p) => Live(p) = {}

\* C3: a call that finds the engine missing or without cv.Mat returns null
\* at once: the probe is the only statement it runs, it allocates nothing,
\* leaves its Mats and the canvas untouched and throws nothing.
C3_UnavailableReturnsNull ==
  \A p \in Procs :
    Done(p) /\ engineAtCall[p] \in {"missing", "noMat"} =>
      /\ result[p] = Null
      /\ ran[p] = {"check"}
      /\ everAlloc[p] = {}
      /\ Live(p) = {}
      /\ canvas[p] = orig[p]
      /\ mat[p] = [src |-> EmptyMat, smallSrc |-> EmptyMat, dst |-> EmptyMat]
      /\ threw[p] = "none"

C3_Witness ==
  /\ Done(1)
  /\ engineAtCall[1] = "noMat"
  /\ result[1] = Null

\* C4, state part: a completed call has returned an encoded image or null,
\* never a rejection; it returned null only if the engine was unavailable or
\* a statement threw; a call that found no document and saw nothing throw
\* returned an image.
C4_Outcome ==
  \A p \in Procs :
    /\ result[p].kind \in {"none", "null", "image"}
    /\ Done(p) => result[p].kind \in {"null", "image"}
    /\ Done(p) /\ result[p] = Null =>
         (threw[p] # "none" \/ engineAtCall[p] # "loaded")
    /\ Done(p) /\ "imshowSrc" \in ran[p] /\ threw[p] = "none" =>
         result[p].kind = "image"

\* C4: every call that has been made completes, and completes with an image
\* or null.
C4_CompletesWithImageOrNull ==
  /\ []C4_Outcome
  /\ \A p \in {1} : (pc[p] = "check") ~> Done(p)

C4_Witness ==
  /\ Done(1)
  /\ threw[1] = "none"
  /\ "imshowSrc" \in ran[1]
  /\ result[1].kind = "image"

\* a single capture request whose statements are run one after the other
\* until the call returns: an async function without an await runs to
\* completion once called
NextLive ==
  \/ LoadEngine
  \/ Step(1, Frames, ConcLists)

FairSpec == Init /\ [][NextLive]_vars /\ WF_vars(Step(1, Frames, ConcLists))

\* C5: once findContours has answered with no contour that passes the
\* filter, the canvas keeps the size and the pixels of the captured frame, dst
\* is never written, and a call that completes without a throw returns the
\* encoding of exactly that frame.
C5_FallbackKeepsFrame ==
  \A p \in Procs :
    "findContours" \in ran[p] /\ AcceptedIdx(contours[p]) = {} =>
      /\ canvas[p] = orig[p]
      /\ mat[p].dst = EmptyMat
      /\ "warp" \notin ran[p]
      /\ Done(p) /\ threw[p] = "none" =>
           /\ result[p] = toDataURL(orig[p])
           /\ result[p] # Null
      /\ Done(p) /\ threw[p] # "none" => result[p] = Null

C5_Witness ==
  /\ Done(1)
  /\ threw[1] = "none"
  /\ Len(contours[1]) > 0
  /\ AcceptedIdx(contours[1]) = {}
  /\ \E k \in 1..Len(contours[1]) : contours[1][k].area >= minArea
  /\ result[1] = toDataURL(orig[1])

\* C6: at every loop test the retained corners are those of the accepted
\* contour of largest raw area among the contours handled so far, the first
\* one among equals, and nothing if none was accepted; what is retained never
\* has an area below 5000, at any frame size.
C6_LargestAcceptedFirstWins ==
  \A p \in Procs :
    /\ pc[p] \in {"loopTest", "branch"} =>
         maxContourData[p] = Retained(Prefix(contours[p], i[p]))
    /\ pc[p] = "branch" \/ "branch" \in ran[p] =>
         maxContourData[p] = Retained(contours[p])
    /\ maxContourData[p] # NoQuad => maxArea[p] >= minArea

C6_Witness ==
  /\ pc[1] = "branch"
  /\ Len(contours[1]) = 2
  /\ AcceptedIdx(contours[1]) = {1, 2}
  /\ contours[1][1].area = contours[1][2].area
  /\ contours[1][1].approx # contours[1][2].approx
  /\ maxContourData[1] = contours[1][1].approx

\* the vertices at which x + y is smallest, and largest
MinSumAt(q) == {k \in 1..4 : \A j \in 1..4 : SumKey(q[k]) <= SumKey(q[j])}
MaxSumAt(q) == {k \in 1..4 : \A j \in 1..4 : SumKey(q[k]) >= SumKey(q[j])}

UniqueExtremes(q) ==
  /\ Cardinality(MinSumAt(q)) = 1
  /\ Cardinality(MaxSumAt(q)) = 1

\* a quadrilateral with a horizontal side and a vertical side: as far from a
\* rotation by 45 degrees as a quadrilateral gets
FrameAligned(q) ==
  /\ \E k \in 1..4 : q[k].y = q[(k % 4) + 1].y
  /\ \E k \in 1..4 : q[k].x = q[(k % 4) + 1].x

\* C7 (as claimed): for a convex quadrilateral that is not rotated towards 45
\* degrees, orderPoints gives the same labeling for each of the eight
\* cyclic and reversed orders of its vertices.
C7_SameLabelingAnyOrder ==
  ordOut # NoQuad /\ FrameAligned(pts) =>
    \A a \in Arrangements(pts) : orderPoints(a) = ordOut

\* C7 (amended): for a convex quadrilateral in which the smallest x + y and
\* the largest x + y are each attained by a single vertex, orderPoints gives
\* the same labeling for each of the eight orders of its vertices.
C7_SameLabelingUniqueExtremes ==
  ordOut # NoQuad /\ UniqueExtremes(pts) =>
    \A a \in Arrangements(pts) : orderPoints(a) = ordOut

C7_Witness ==
  /\ ordOut # NoQuad
  /\ UniqueExtremes(pts)
  /\ ~FrameAligned(pts)
  /\ ordOut # pts
  /\ \A a \in Arrangements(pts) : orderPoints(a) = ordOut

\* C8 (as claimed): for every convex quadrilateral, given in tracing order,
\* the labeling [tl, tr, br, bl] walks the boundary: it is one of the eight
\* tracing orders of the quadrilateral.
C8_LabelingTracesBoundary ==
  ordOut # NoQuad => ordOut \in Arrangements(pts)

\* the single vertex of smallest x + y and the single vertex of largest x + y
\* are opposite vertices
OppositeExtremes(q) ==
  /\ UniqueExtremes(q)
  /\ \E k \in MinSumAt(q) : ((k + 1) % 4) + 1 \in MaxSumAt(q)

\* C8 (amended): for every convex quadrilateral in which the smallest and
\* the largest x + y are each attained by a single vertex and these two
\* vertices are opposite, the labeling walks the boundary.
C8_LabelingTracesBoundaryOpposite ==
  ordOut # NoQuad /\ OppositeExtremes(pts) => ordOut \in Arrangements(pts)

C8_Witness ==
  /\ ordOut # NoQuad
  /\ OppositeExtremes(pts)
  /\ ~FrameAligned(pts)
  /\ ordOut \in Arrangements(pts)
  /\ ordOut # pts

\* the detected corners in original-frame coordinates, in units of
\* 1/scale.num pixels
DetectedSet(p) ==
  LET sc == ScaleOf(orig[p].height, orig[p].width)
  IN  {Pt(q.x * sc.den, q.y * sc.den) :
         q \in {maxContourData[p][k] : k \in 1..4}}

\* the four points are the corners of an axis-aligned rectangle
IsAxisRect(S, x0, y0, x1, y1) ==
  /\ x0 < x1
  /\ y0 < y1
  /\ S = {Pt(x0, y0), Pt(x1, y0), Pt(x1, y1), Pt(x0, y1)}

IsTruncRoot(w, v2, u) ==
  /\ (w * u) * (w * u) <= v2
  /\ v2 < ((w + 1) * u) * ((w + 1) * u)

\* c is the canvas the warp of the retained contour leaves
IsAloneWarped(p, c) ==
  LET sc == ScaleOf(orig[p].height, orig[p].width)
      q  == Retained(contours[p])
      o  == orderPoints([k \in 1..4 |-> Pt(q[k].x * sc.den, q[k].y * sc.den)])
      w2 == Max2(HypotSq(o[3], o[4]), HypotSq(o[2], o[1]))
      h2 == Max2(HypotSq(o[2], o[3]), HypotSq(o[1], o[4]))
  IN  /\ c.px = [img |-> orig[p].px.img, warp |-> o, unit |-> sc.num]
      /\ IsTruncRoot(c.width, w2, sc.num)
      /\ IsTruncRoot(c.height, h2, sc.num)

\* c is the canvas the call leaves when it runs alone, having seen the
\* engine eng and the statement thr throw
IsAloneCanvas(p, c, eng, thr) ==
  IF /\ eng = "loaded"
     /\ Retained(contours[p]) # NoQuad
     /\ thr \in {"none", "encode"}
    THEN IsAloneWarped(p, c)
    ELSE c = orig[p]

IsAloneResult(r, c, eng, thr) ==
  IF eng # "loaded" \/ thr # "none" THEN r = Null
  ELSE r = toDataURL(c)

\* everything a call reads or writes besides window.cv
CallState(p) ==
  <<canvas[p], orig[p], engineAtCall[p], Live(p), everAlloc[p], mat[p],
    scale[p], contours[p], i[p], maxArea[p], maxContourData[p], ordered[p],
    maxSize[p], result[p], threw[p], ran[p]>>

\* C10: with two calls in flight on two canvases, a step of one call leaves
\* everything of the other call as it was, buffers included, and each call
\* that completes has returned what it returns alone and left the canvas it
\* leaves alone (checked at the step that completes the call; nothing of a
\* completed call changes afterwards, by the first conjunct).
C10_CallsIndependent ==
  [][\A p \in Procs :
       /\ pc'[p] = pc[p] => CallState(p)' = CallState(p)
       /\ \A h \in heap' \ heap : pc'[h.owner] # pc[h.owner]
       /\ \A h \in heap \ heap' : pc'[h.owner] # pc[h.owner]
       /\ pc[p] # "done" /\ pc'[p] = "done" =>
            /\ orig'[p] = orig[p]
            /\ contours'[p] = contours[p]
            /\ IsAloneCanvas(p, canvas'[p], engineAtCall'[p], threw'[p])
            /\ IsAloneResult(result'[p], canvas'[p], engineAtCall'[p],
                             threw'[p])]_vars

C10_Witness ==
  /\ pc[1] = "encode"
  /\ pc[2] = "encode"
  /\ canvas[1].px.warp # NoQuad
  /\ canvas[2].px.warp # NoQuad
  /\ canvas[1] # canvas[2]
  /\ Live(1) # {}
  /\ Live(2) # {}

(***************************************************************************)
(* SpecScale: the scale computation and the resize of lines 27-37, applied *)
(* to frames of many sizes. The call stands at the resize statement with   *)
(* src read from the canvas, dst and smallSrc allocated.                   *)
(***************************************************************************)
\* heights and widths of the frames; 1280x720, 1920x1080 and 4624x3468 are
\* camera resolutions
ScaleRows == {480, 600, 720, 800, 1000, 1078, 1080, 1200, 3468}
ScaleCols == {640, 800, 801, 1000, 1078, 1280, 1600, 1920, 4624}

InitScale ==
  /\ \E r \in ScaleRows, c \in ScaleCols :
       LET f == [width |-> c, height |-> r, px |-> FramePx(1)]
       IN  /\ canvas = [p \in Procs |-> IF p = 1 THEN f ELSE NoCanvas]
           /\ orig = [p \in Procs |-> IF p = 1 THEN f ELSE NoCanvas]
           /\ mat = [p \in Procs |->
                       [src |-> IF p = 1 THEN imread(f) ELSE EmptyMat,
                        smallSrc |-> EmptyMat, dst |-> EmptyMat]]
  /\ cv = "loaded"
  /\ pc = [p \in Procs |-> IF p = 1 THEN "resize" ELSE "idle"]
  /\ engineAtCall = [p \in Procs |-> IF p = 1 THEN "loaded" ELSE "none"]
  /\ heap = {H(1, "src", 0), H(1, "dst", 0), H(1, "smallSrc", 0)}
  /\ everAlloc = [p \in Procs |->
                    IF p = 1 THEN {<<"src", 0>>, <<"dst", 0>>, <<"smallSrc", 0>>}
                    ELSE {}]
  /\ ran = [p \in Procs |->
              IF p = 1 THEN {"check", "imread", "newDst", "newSmall"} ELSE {}]
  /\ scale = [p \in Procs |-> [num |-> 1, den |-> 1]]
  /\ contours = [p \in Procs |-> <<>>]
  /\ i = [p \in Procs |-> 0]
  /\ maxArea = [p \in Procs |-> 0]
  /\ maxContourData = [p \in Procs |-> NoQuad]
  /\ ordered = [p \in Procs |-> NoQuad]
  /\ maxSize = [p \in Procs |-> [w2 |-> 0, h2 |-> 0]]
  /\ result = [p \in Procs |-> NoResult]
  /\ threw = [p \in Procs |-> "none"]
  /\ pts = NoQuad
  /\ ordOut = NoQuad
  /\ delivered = [p \in Procs |-> NoResult]
  /\ IdleRescale
  /\ IdleApp

NextScale == Resize(1)

SpecScale == InitScale /\ [][NextScale]_vars

\* C11: once the resize statement has run, a frame whose longer dimension
\* exceeds 800 has a downscaled copy whose longer dimension is 800, both
\* dimensions being the frame's dimensions times 800 / longer dimension
\* (fraction dropped); a frame whose longer dimension is at most 800 has
\* scale 1 and a downscaled copy that is the frame itself, not resized.
C11_LongerSideIsCap ==
  pc[1] = "newGray" =>
    LET src == mat[1].src
        small == mat[1].smallSrc
        long == Max2(src.rows, src.cols)
    IN  IF long > maxDim
          THEN /\ scale[1].num * long = scale[1].den * maxDim
               /\ Max2(small.rows, small.cols) = maxDim
               /\ small.rows = (src.rows * maxDim) \div long
               /\ small.cols = (src.cols * maxDim) \div long
          ELSE /\ scale[1] = [num |-> 1, den |-> 1]
               /\ small = src

\* C12: in SCAN mode takePhoto always hands an image to onPhotoCaptured, and
\* when processDocumentScan returned null that image is the encoding of the
\* frame as it was captured: its size and its pixels.
C12_FallbackDeliversOriginal ==
  pc[1] \in {"delivered", "unhandled"} =>
    /\ pc[1] = "delivered"
    /\ delivered[1].kind = "image"
    /\ result[1] = Null =>
         /\ delivered[1].px = orig[1].px
         /\ delivered[1].width = orig[1].width
         /\ delivered[1].height = orig[1].height

\* the part of C12 that the canvas left behind by a failed call breaks, with
\* the fallback encoding itself succeeding
C12_NullDeliversOriginal ==
  pc[1] = "delivered" /\ result[1] = Null =>
    /\ delivered[1].px = orig[1].px
    /\ delivered[1].width = orig[1].width
    /\ delivered[1].height = orig[1].height

\* the corners of the destination rectangle of a w by h output, in the
\* order of dstTri
DstCorners(w, h) == <<Pt(0, 0), Pt(w, 0), Pt(w, h), Pt(0, h)>>

\* C13: when the detected corners, scaled back, are (0,0),(W,0),(W,H),(0,H)
\* in whatever tracing order, the ordered source corners are these four in
\* the order of the destination corners, maxWidth is W and maxHeight is H
\* (source and destination corners coincide), the output is W by H (the
\* fraction of W and H cut off when they do not fall on whole pixels) and
\* shows the frame through exactly that rectangle: the identity mapping.
C13_IdentityWarp ==
  Done(1) /\ threw[1] = "none" /\ maxContourData[1] # NoQuad =>
    LET S == DetectedSet(1)
        u == ScaleOf(orig[1].height, orig[1].width).num
        wd == CHOOSE v \in {q.x : q \in S} : \A q \in S : v >= q.x
        ht == CHOOSE v \in {q.y : q \in S} : \A q \in S : v >= q.y
    IN  wd > 0 /\ ht > 0 /\ S = {Pt(0, 0), Pt(wd, 0), Pt(wd, ht), Pt(0, ht)} =>
          /\ ordered[1] = DstCorners(wd, ht)
          /\ maxSize[1] = [w2 |-> wd * wd, h2 |-> ht * ht]
          /\ canvas[1].width = wd \div u
          /\ canvas[1].height = ht \div u
          /\ wd % u = 0 => canvas[1].width * u = wd
          /\ ht % u = 0 => canvas[1].height * u = ht
          /\ canvas[1].px = [img |-> orig[1].px.img, warp |-> DstCorners(wd, ht),
                             unit |-> u]
          /\ result[1].kind = "image"
          /\ result[1].px = canvas[1].px
          /\ result[1].width = canvas[1].width
          /\ result[1].height = canvas[1].height

C13_Witness ==
  /\ Done(1)
  /\ threw[1] = "none"
  /\ maxContourData[1] = RectOrigin
  /\ orig[1].width = 1000
  /\ ordered[1] = DstCorners(3200, 2400)
  /\ canvas[1].width = 800
  /\ canvas[1].height = 600
  /\ result[1].kind = "image"

\* the ways of handing four labels to four input positions, one each
Labelings == {f \in [1..4 -> 1..4] : \A a, b \in 1..4 : a # b => f[a] # f[b]}

\* C14: orderPoints returns its four input points, each under exactly one
\* label; TopLeft has the smallest x + y of the four and BottomRight the
\* largest; of the other two, TopRight has the smaller y - x and BottomLeft
\* the larger.
C14_PermutationByKeys ==
  ordOut # NoQuad =>
    /\ \E f \in Labelings : \A k \in 1..4 : ordOut[k] = pts[f[k]]
    /\ \A k \in 1..4 : SumKey(ordOut[1]) <= SumKey(pts[k])
    /\ \A k \in 1..4 : SumKey(ordOut[3]) >= SumKey(pts[k])
    /\ DiffKey(ordOut[2]) <= DiffKey(ordOut[4])

C14_Witness ==
  /\ ordOut # NoQuad
  /\ ordOut # pts
  /\ SumKey(ordOut[1]) < SumKey(ordOut[2])
  /\ SumKey(ordOut[2]) > SumKey(ordOut[4])
  /\ DiffKey(ordOut[2]) < DiffKey(ordOut[4])

(***************************************************************************)
(* SpecRescale: lines 87-94, the detected corners divided by scale and     *)
(* then ordered, on the quadrilaterals of a coarse grid of downscaled      *)
(* pixels and frames of several widths                                     *)
(***************************************************************************)
\* a grid of nine points, 100 downscaled pixels apart
RescaleCoords == {1, 101, 201}

RescaleGrid == {Pt(a, b) : a \in RescaleCoords, b \in RescaleCoords}

\* every strictly convex quadrilateral of that grid, in every tracing order
RescaleQuads == {q \in [1..4 -> RescaleGrid] : isContourConvex(q)}

\* the frames: 800x600, 1000x750, 1280x720 and 1600x1200
RescaleFrames ==
  { [rows |-> 600, cols |-> 800], [rows |-> 750, cols |-> 1000],
    [rows |-> 720, cols |-> 1280], [rows |-> 1200, cols |-> 1600] }

InitRescale ==
  /\ InitPipeline
  /\ pts = NoQuad
  /\ ordOut = NoQuad
  /\ \E q \in RescaleQuads, f \in RescaleFrames :
       detected = [quad |-> q, rows |-> f.rows, cols |-> f.cols]
  /\ rescaled = NoQuad
  /\ IdleApp

\* const points = maxContourData.map(...); orderPoints(points)
RescaleAndOrder ==
  /\ detected.quad # NoQuad
  /\ rescaled = NoQuad
  /\ \E s \in {scaleNumber(detected.rows, detected.cols)} :
       \E points \in {scaleBack(detected.quad, s)} :
         rescaled' = orderPointsNumber(points)
  /\ UNCHANGED <<cv, pc, canvas, orig, engineAtCall, heap, everAlloc, mat,
                 scale, loopVars, warpVars, result, threw, ran, orderVars,
                 delivered, detected, appVars>>

NextRescale == RescaleAndOrder

SpecRescale == InitRescale /\ [][NextRescale]_vars

\* the specified algorithm: order the detected corners, then divide each
\* coordinate by the scale
OrderThenRescale(d) ==
  scaleBack(orderPoints(d.quad), scaleNumber(d.rows, d.cols))

\* C15: the corners the code labels after dividing by scale are, label by
\* label, the corners obtained by ordering first and dividing afterwards.
C15_RescaleOrderCommute ==
  rescaled # NoQuad => rescaled = OrderThenRescale(detected)

\* on the frames of Spec (scale 1, 4/5 and 1/2) the two orders of the steps
\* do agree: there the division keeps every tie of x + y and of y - x
RescaleAgreesOnFrames ==
  rescaled # NoQuad /\ detected.cols \in {f.width : f \in Frames} =>
    rescaled = OrderThenRescale(detected)


(***************************************************************************)
(* App and CameraView: the handlers of App, the completion of initCamera,  *)
(* and the zoom, shutter and recording effects of CameraView.  React runs  *)
(* an effect after a render in which one of its dependencies changed, and  *)
(* runs the effects of a render before it handles the next event, so a     *)
(* handler fires only when no effect is waiting.  isEIS, isHDR and         *)
(* wbPreset are left at their initial values.                              *)
(***************************************************************************)
Modes == {"PHOTO", "VIDEO", "SCAN"}

\* zoom levels the slider can give, in tenths (1 to 100, step 0.1)
ZoomTenths == {10, 53, 106, 1000}

ZoomLevels == {Div(Num(k), Num(10)) : k \in ZoomTenths}

\* caps.zoom.max of the cameras considered
HardwareMaxes == {1, 5, 10}

\* shutter presses considered
MaxPresses == 2

\* no further event is considered once this many media are captured or
\* being recorded
MaxMedia == 2

\* what App and CameraView never touch
pipelineVars == <<cv, pc, canvas, orig, engineAtCall, heap, everAlloc, mat,
                  scale, loopVars, warpVars, result, threw, ran, orderVars,
                  delivered, rescaleVars>>

ZoomDeps == <<app.zoomLevel, view.hardwareZoomMax, app.isTorchOn>>

\* captureFrame is a new function whenever cssScale or mode changed
ShutterDeps == <<app.triggerShutterCount, view.cssScale, app.mode>>

RecordDeps == <<app.triggerRecordToggle, view.isRecording>>

NoEffectPending ==
  /\ fx.zoom = ZoomDeps
  /\ fx.shutter = ShutterDeps
  /\ fx.record = RecordDeps

Committed ==
  Len(app.mediaList)
    + (IF view.mediaRecorderRef = "recording" \/ view.stopQueued THEN 1 ELSE 0)

CanHandle == NoEffectPending /\ Committed < MaxMedia

handleShutterPress ==
  /\ CanHandle
  /\ app.triggerShutterCount < MaxPresses
  /\ app' = [app EXCEPT !.triggerShutterCount = @ + 1]
  /\ UNCHANGED <<view, fx, pipelineVars>>

handleRecordToggle ==
  /\ CanHandle
  /\ app' = [app EXCEPT !.isRecording = ~app.isRecording,
                        !.triggerRecordToggle = ~app.isRecording]
  /\ UNCHANGED <<view, fx, pipelineVars>>

setMode(m) ==
  /\ CanHandle
  /\ m # app.mode
  /\ app' = [app EXCEPT !.mode = m]
  /\ UNCHANGED <<view, fx, pipelineVars>>

setZoomLevel(z) ==
  /\ CanHandle
  /\ z # app.zoomLevel
  /\ app' = [app EXCEPT !.zoomLevel = z]
  /\ UNCHANGED <<view, fx, pipelineVars>>

toggleTorch ==
  /\ CanHandle
  /\ app' = [app EXCEPT !.isTorchOn = ~@]
  /\ UNCHANGED <<view, fx, pipelineVars>>

\* getUserMedia resolved: the refs are set and setHardwareZoomMax is called
CameraReady(maxZoom) ==
  /\ CanHandle
  /\ view.camera = "pending"
  /\ view' = [view EXCEPT !.camera = "ready", !.streamRef = TRUE,
                          !.trackRef = TRUE, !.hardwareZoomMax = Num(maxZoom)]
  /\ UNCHANGED <<app, fx, pipelineVars>>

\* getUserMedia rejected: the catch logs the error
CameraFail ==
  /\ CanHandle
  /\ view.camera = "pending"
  /\ view' = [view EXCEPT !.camera = "failed"]
  /\ UNCHANGED <<app, fx, pipelineVars>>

\* the mutant: the digital scale is the whole zoom level
zoomSplitUndivided(zoomLevel, hardwareZoomMax) ==
  IF ~Less(hardwareZoomMax, zoomLevel)
  THEN [hwZoom |-> zoomLevel, swZoom |-> Num(1)]
  ELSE [hwZoom |-> hardwareZoomMax, swZoom |-> zoomLevel]

zoomSplit(zoomLevel, hardwareZoomMax) ==
  IF ~Less(hardwareZoomMax, zoomLevel)
  THEN [hwZoom |-> zoomLevel, swZoom |-> Num(1)]
  ELSE [hwZoom |-> hardwareZoomMax, swZoom |-> Div(zoomLevel, hardwareZoomMax)]

ZoomEffect ==
  /\ fx.zoom # ZoomDeps
  /\ fx' = [fx EXCEPT !.zoom = ZoomDeps]
  /\ IF ~view.trackRef THEN UNCHANGED view
     ELSE \E split \in {zoomSplit(app.zoomLevel, view.hardwareZoomMax)} :
            view' = [view EXCEPT !.cssScale = split.swZoom,
                                 !.hwZoom = split.hwZoom]
  /\ UNCHANGED <<app, pipelineVars>>

\* takePhoto: captureFrame gives a data URL and onPhotoCaptured appends it
ShutterEffect ==
  /\ fx.shutter # ShutterDeps
  /\ fx' = [fx EXCEPT !.shutter = ShutterDeps]
  /\ IF app.triggerShutterCount = 0 THEN UNCHANGED app
     ELSE app' = [app EXCEPT !.mediaList = Append(@, "image")]
  /\ UNCHANGED <<view, pipelineVars>>

RecordEffect ==
  /\ fx.record # RecordDeps
  /\ fx' = [fx EXCEPT !.record = RecordDeps]
  /\ IF ~view.streamRef THEN UNCHANGED view
     ELSE IF app.triggerRecordToggle /\ ~view.isRecording
     THEN \/ view' = [view EXCEPT !.mediaRecorderRef = "recording",
                                  !.isRecording = TRUE, !.started = @ + 1]
          \/ UNCHANGED view                       \* new MediaRecorder threw
          \/ view' = [view EXCEPT !.mediaRecorderRef = "inactive"]
                                                  \* recorder.start threw
     ELSE IF ~app.triggerRecordToggle /\ view.isRecording
               /\ view.mediaRecorderRef = "recording"
     THEN view' = [view EXCEPT !.mediaRecorderRef = "inactive",
                               !.stopQueued = TRUE]
     ELSE UNCHANGED view
  /\ UNCHANGED <<app, pipelineVars>>

\* recorder.onstop: onRecordingComplete(blob), setIsRecording(false)
RecorderStopped ==
  /\ NoEffectPending
  /\ view.stopQueued
  /\ view' = [view EXCEPT !.stopQueued = FALSE, !.isRecording = FALSE]
  /\ app' = [app EXCEPT !.mediaList = Append(@, "video")]
  /\ UNCHANGED <<fx, pipelineVars>>

NextApp ==
  \/ handleShutterPress
  \/ handleRecordToggle
  \/ \E m \in Modes : setMode(m)
  \/ \E z \in ZoomLevels : setZoomLevel(z)
  \/ toggleTorch
  \/ \E maxZoom \in HardwareMaxes : CameraReady(maxZoom)
  \/ CameraFail
  \/ ZoomEffect
  \/ ShutterEffect
  \/ RecordEffect
  \/ RecorderStopped

SpecApp == Init /\ [][NextApp]_vars

\* the images of the gallery: one per call of onPhotoCaptured
Images == {k \in 1..Len(app.mediaList) : app.mediaList[k] = "image"}

\* C16: once the effects have run, onPhotoCaptured has been called as many
\* times as the shutter trigger counter was incremented; a change of mode or
\* of zoom level captures nothing.
C16_CaptureOnlyOnPress ==
  NoEffectPending => Cardinality(Images) = app.triggerShutterCount

\* every effect has run and no stop event of a recorder is waiting
Settled == NoEffectPending /\ ~view.stopQueued

Videos == {k \in 1..Len(app.mediaList) : app.mediaList[k] = "video"}

\* C17: once the effects have run, the isRecording indicator of App is true
\* exactly when CameraView holds an active MediaRecorder, and when it is
\* false every recording that was started has delivered one
\* onRecordingComplete.
C17_IndicatorMatchesRecorder ==
  Settled =>
    /\ app.isRecording <=> (view.mediaRecorderRef = "recording")
    /\ ~app.isRecording => Cardinality(Videos) = view.started

\* the second half of C17 alone
RecordingsComplete ==
  Settled /\ ~app.isRecording => Cardinality(Videos) = view.started

\* the zoom effect has applied a split for the current zoom level and maximum
SplitApplied == view.trackRef /\ fx.zoom = ZoomDeps /\ view.hwZoom # Zero

\* |a * b - z| <= z / 2^53 in exact arithmetic, for positive a, b and z
WithinRounding(a, b, z) ==
  LET e == IF a.e + b.e <= z.e THEN a.e + b.e ELSE z.e
      P == NShl(NMul(a.m, b.m), a.e + b.e - e)
      Z == NShl(z.m, z.e - e)
      D == IF NCmp(P, Z) >= 0 THEN NSub(P, Z) ELSE NSub(Z, P)
  IN  NCmp(NShl(D, 53), Z) <= 0

\* C18 as stated: the hardware zoom is min(z, m), it never exceeds m, the
\* digital scale is above 1 only when z exceeds m, and the product of the
\* two equals z.
C18_ProductIsZoom ==
  SplitApplied =>
    /\ view.hwZoom = Min2(app.zoomLevel, view.hardwareZoomMax)
    /\ ~Less(view.hardwareZoomMax, view.hwZoom)
    /\ Less(Num(1), view.cssScale) => Less(view.hardwareZoomMax, app.zoomLevel)
    /\ Mul(view.hwZoom, view.cssScale) = app.zoomLevel

\* C18, amended: the hardware zoom is min(z, m), it never exceeds m, the
\* digital scale is the number nearest to z / min(z, m) and is above 1 only
\* when z exceeds m, and the product of the two equals z up to the rounding
\* of that one division (exactly, when z does not exceed m).
C18_ZoomSplit ==
  SplitApplied =>
    /\ view.hwZoom = Min2(app.zoomLevel, view.hardwareZoomMax)
    /\ ~Less(view.hardwareZoomMax, view.hwZoom)
    /\ view.cssScale = Div(app.zoomLevel, view.hwZoom)
    /\ Less(Num(1), view.cssScale) => Less(view.hardwareZoomMax, app.zoomLevel)
    /\ WithinRounding(view.hwZoom, view.cssScale, app.zoomLevel)
    /\ ~Less(view.hardwareZoomMax, app.zoomLevel)
         => Mul(view.hwZoom, view.cssScale) = app.zoomLevel

\* a split beyond the hardware maximum whose product is not the zoom level
C18_Witness ==
  /\ SplitApplied
  /\ Less(view.hardwareZoomMax, app.zoomLevel)
  /\ Mul(view.hwZoom, view.cssScale) # app.zoomLevel

====
